---- MODULE Spec2Model ----
(***************************************************************************)
(* A model of autoload/xmlInterface.py: the Coqtop XML codec               *)
(* (_from_value / _to_value / _to_response), the command builders, the     *)
(* response framer (raw_response) and the version dispatcher               *)
(* (XmlInterface).                                                         *)
(*                                                                         *)
(* Representation.                                                         *)
(*  - A Python str / bytes / XML text is a sequence of one-character       *)
(*    strings, so that str(), int(), lower(), replace(), split() and join  *)
(*    are computed and not assumed.  Tags, attribute names and Python type *)
(*    names are TLA+ strings.                                              *)
(*  - A Python value is a record [k, n, s, items]: k is the runtime type,  *)
(*    n the number of an int/bool, s the characters of a str, items the    *)
(*    elements of a list/tuple or the fields of a namedtuple.              *)
(*  - An ElementTree element is a record [tag, attrib, text, tail, kids];  *)
(*    attrib is a sequence of <<name, value>> pairs.  A text of None and a *)
(*    text of '' are both the empty sequence.                              *)
(*  - A raised exception is a record [exc, expected, got].                 *)
(***************************************************************************)
EXTENDS Integers, Sequences, FiniteSets, TLC

VARIABLES
    pc,        \* position of the harness that calls the interface
    val,       \* codec: the Python value handed to _from_value / a command's arguments
    depth,     \* codec: nesting depth of val
    xml,       \* codec: the element built (or the exception raised)
    out,       \* codec: the value decoded (or the exception raised)
    sent,      \* commands: the bytes the command returned
    data,      \* framer: the whole buffer the process has emitted so far
    first,     \* framer: the first chunk of data that was fed alone
    single,    \* framer: raw_response(data) in one call
    r1,        \* framer: raw_response(first)
    r2,        \* framer: raw_response(data) called after the call on first
    parts,     \* dispatcher: the components the version string was written from
    version,   \* dispatcher: the version string
    versions,  \* dispatcher: the local `versions` after line 355
    impl       \* dispatcher: what XmlInterface returned or raised

vars == <<pc, val, depth, xml, out, sent, data, first, single, r1, r2, parts, version, versions, impl>>

codecVars == <<val, depth, xml, out, sent>>
framerVars == <<data, first, single, r1, r2>>
versionVars == <<parts, version, versions, impl>>

(***************************************************************************)
(* Bounds of the model.                                                    *)
(***************************************************************************)
MaxDepth == 2      \* wrappers applied around an atom of the Value Model
MaxElems == 3      \* top-level elements in a buffer
MaxParts == 4      \* '.'-separated parts of a version string

(***************************************************************************)
(* Characters and the builtin conversions str(), int(), lower().           *)
(***************************************************************************)
Digits == <<"0", "1", "2", "3", "4", "5", "6", "7", "8", "9">>

IsDigit(c) == \E i \in 1..10 : Digits[i] = c

DigitVal(c) == (CHOOSE i \in 1..10 : Digits[i] = c) - 1

RECURSIVE NatToStr(_)
NatToStr(n) ==
    IF n < 10 THEN <<Digits[n + 1]>>
    ELSE NatToStr(n \div 10) \o <<Digits[(n % 10) + 1]>>

\* str(n) of a Python int
IntToStr(n) == IF n < 0 THEN <<"-">> \o NatToStr(0 - n) ELSE NatToStr(n)

RECURSIVE DigitsToNat(_)
DigitsToNat(s) ==
    IF s = <<>> THEN 0
    ELSE 10 * DigitsToNat(SubSeq(s, 1, Len(s) - 1)) + DigitVal(s[Len(s)])

AllDigits(s) == s # <<>> /\ \A i \in 1..Len(s) : IsDigit(s[i])

\* whether int(s) accepts the string: an optional sign and a run of digits
IsIntLiteral(s) ==
    IF s # <<>> /\ s[1] \in {"-", "+"} THEN AllDigits(Tail(s)) ELSE AllDigits(s)

\* int(s) of a string int() accepts
StrToInt(s) ==
    IF s[1] = "-" THEN 0 - DigitsToNat(Tail(s))
    ELSE IF s[1] = "+" THEN DigitsToNat(Tail(s))
    ELSE DigitsToNat(s)

LowerChar(c) == IF c = "T" THEN "t" ELSE IF c = "F" THEN "f" ELSE c

\* s.lower()
Lower(s) == [i \in 1..Len(s) |-> LowerChar(s[i])]

RECURSIVE Concat(_)
\* ''.join(seqs)
Concat(seqs) == IF seqs = <<>> THEN <<>> ELSE Head(seqs) \o Concat(Tail(seqs))

RECURSIVE Join(_, _)
\* sep.join(seqs)
Join(sep, seqs) ==
    IF seqs = <<>> THEN <<>>
    ELSE IF Len(seqs) = 1 THEN seqs[1]
    ELSE seqs[1] \o sep \o Join(sep, Tail(seqs))

\* the literals of the protocol
sTrue == <<"t", "r", "u", "e">>
sFalse == <<"f", "a", "l", "s", "e">>
sNone == <<"n", "o", "n", "e">>
sSome == <<"s", "o", "m", "e">>
sInL == <<"i", "n", "_", "l">>
sInR == <<"i", "n", "_", "r">>
sGood == <<"g", "o", "o", "d">>
sFail == <<"f", "a", "i", "l">>

(***************************************************************************)
(* Python values.                                                          *)
(***************************************************************************)
PyVal(k, n, s, items) == [k |-> k, n |-> n, s |-> s, items |-> items]

None == PyVal("NoneType", 0, <<>>, <<>>)
PyBool(b) == PyVal("bool", IF b THEN 1 ELSE 0, <<>>, <<>>)
PyInt(n) == PyVal("int", n, <<>>, <<>>)
PyFloat(n) == PyVal("float", n, <<>>, <<>>)
PyStr(s) == PyVal("str", 0, s, <<>>)
PyList(items) == PyVal("list", 0, <<>>, items)
PyTuple(items) == PyVal("tuple", 0, <<>>, items)
Unit == PyTuple(<<>>)
Pair(a, b) == PyTuple(<<a, b>>)

\* Coqtop Types (lines 63-80): the fields of a namedtuple are its items
Option(v) == PyVal("Option", 0, <<>>, <<v>>)
Inl(v) == PyVal("Inl", 0, <<>>, <<v>>)
Inr(v) == PyVal("Inr", 0, <<>>, <<v>>)
Evar(info) == PyVal("Evar", 0, <<>>, <<info>>)
OptionValue(v) == PyVal("OptionValue", 0, <<>>, <<v>>)
StateId(id) == PyVal("StateId", 0, <<>>, <<id>>)
NamedTuple(k, fields) == PyVal(k, 0, <<>>, fields)

\* the tuple `namedtuples` and the number of fields of each
namedtuples ==
    {"Option", "Inl", "Inr", "Goal", "Goals", "Evar", "OptionState",
     "OptionValue", "StateId", "Status", "CoqInfo"}

Arity(k) ==
    CASE k = "Goal" -> 3
      [] k = "Goals" -> 4
      [] k = "OptionState" -> 4
      [] k = "Status" -> 4
      [] k = "CoqInfo" -> 4
      [] OTHER -> 1

\* isinstance(v, cls): bool is a subclass of int, a namedtuple of tuple
isinstance(v, cls) ==
    CASE cls = "int" -> v.k \in {"int", "bool"}
      [] cls = "tuple" -> v.k \in {"tuple"} \cup namedtuples
      [] OTHER -> v.k = cls

\* str(v) of a bool or an int
str(v) ==
    IF v.k = "bool" THEN (IF v.n = 1 THEN <<"T", "r", "u", "e">>
                                     ELSE <<"F", "a", "l", "s", "e">>)
    ELSE IntToStr(v.n)

(***************************************************************************)
(* Exceptions.                                                             *)
(***************************************************************************)
NoGot == [name |-> "", chars |-> <<>>]
GotName(name) == [name |-> name, chars |-> <<>>]
GotChars(chars) == [name |-> "", chars |-> chars]

Raise(type) == [exc |-> type, expected |-> <<>>, got |-> NoGot]

\* raise ValueError("Expected {}, but got {}".format(' or '.join(expected), got))
unexpected(expected, got) == [exc |-> "ValueError", expected |-> expected, got |-> got]

IsExc(r) == "exc" \in DOMAIN r

\* the first exception among the elements of a sequence of results
HasExc(rs) == \E i \in 1..Len(rs) : IsExc(rs[i])
FirstExc(rs) == rs[CHOOSE i \in 1..Len(rs) :
                      IsExc(rs[i]) /\ \A j \in 1..(i - 1) : ~IsExc(rs[j])]

\* is_tuple(val): a tuple, but not one of the Coqtop namedtuples
is_tuple(v) == isinstance(v, "tuple") /\ v.k \notin namedtuples

(***************************************************************************)
(* ElementTree elements.                                                   *)
(***************************************************************************)
Element(tag, attrib, kids) ==
    [tag |-> tag, attrib |-> attrib, text |-> <<>>, tail |-> <<>>, kids |-> kids]

IsElement(x) == "tag" \in DOMAIN x

HasAttr(x, name) == \E i \in 1..Len(x.attrib) : x.attrib[i][1] = name

\* xml.get(name) of an attribute that is present
Attr(x, name) == x.attrib[CHOOSE i \in 1..Len(x.attrib) : x.attrib[i][1] = name][2]

RECURSIVE itertext(_)
\* ''.join(xml.itertext()): the text, then each child's itertext and tail
itertext(x) ==
    x.text \o Concat([i \in 1..Len(x.kids) |-> itertext(x.kids[i]) \o x.kids[i].tail])

\* xml.find(tag): the first direct child with that tag, or None
find(x, tag) ==
    IF \E i \in 1..Len(x.kids) : x.kids[i].tag = tag
    THEN x.kids[CHOOSE i \in 1..Len(x.kids) :
                    x.kids[i].tag = tag /\ \A j \in 1..(i - 1) : x.kids[j].tag # tag]
    ELSE None

(***************************************************************************)
(* XmlInterfaceBase._build_xml and XmlInterface86._from_value.             *)
(***************************************************************************)
RECURSIVE _from_value(_)

\* _build_xml(tag, val, children): val is None or a str; children is None, a
\* list (each element converted separately) or anything else (one child)
_build_xml(tag, v, children) ==
    LET attribs == IF v # None THEN << <<"val", v.s>> >> ELSE <<>>
        kids == IF children = None THEN <<>>
                ELSE IF isinstance(children, "list")
                THEN [i \in 1..Len(children.items) |-> _from_value(children.items[i])]
                ELSE <<_from_value(children)>>
    IN  IF HasExc(kids) THEN FirstExc(kids) ELSE Element(tag, attribs, kids)

\* xml.text = text on the element a call of _build_xml returned
SetText(x, text) == IF IsExc(x) THEN x ELSE [x EXCEPT !.text = text]

_from_value(v) ==
    IF v = Unit THEN _build_xml("unit", None, None)
    ELSE IF isinstance(v, "bool") THEN _build_xml("bool", PyStr(Lower(str(v))), None)
    ELSE IF isinstance(v, "int") THEN SetText(_build_xml("int", None, None), str(v))
    ELSE IF isinstance(v, "str") THEN SetText(_build_xml("string", None, None), v.s)
    ELSE IF isinstance(v, "list") THEN _build_xml("list", None, v)
    ELSE IF is_tuple(v) THEN
        (IF Len(v.items) < 2 THEN Raise("IndexError")
         ELSE _build_xml("pair", None, PyList(<<v.items[1], v.items[2]>>)))
    ELSE IF isinstance(v, "Option") THEN
        (IF v.items[1] # None THEN _build_xml("option", PyStr(sSome), v.items[1])
         ELSE _build_xml("option", PyStr(sNone), None))
    ELSE IF isinstance(v, "Inl") THEN _build_xml("union", PyStr(sInL), v.items[1])
    ELSE IF isinstance(v, "Inr") THEN _build_xml("union", PyStr(sInR), v.items[1])
    ELSE IF isinstance(v, "StateId") THEN
        _build_xml("state_id", PyStr(str(v.items[1])), None)
    ELSE unexpected(<<>>, GotName(v.k))

(***************************************************************************)
(* XmlInterface86._to_value and _to_response.                              *)
(***************************************************************************)
\* int(x) of a str or of None
int(s, present) ==
    IF ~present THEN Raise("TypeError")
    ELSE IF IsIntLiteral(s) THEN PyInt(StrToInt(s))
    ELSE Raise("ValueError")

\* xml.get('val') as unexpected() prints it
GotVal(x) == IF HasAttr(x, "val") THEN GotChars(Attr(x, "val")) ELSE GotName("None")

\* xml.get('val') == s
ValIs(x, s) == HasAttr(x, "val") /\ Attr(x, "val") = s

RECURSIVE _to_value(_)

\* map(self._to_value, xml) consumed by list(), tuple() or a call
MapToValue(x) == [i \in 1..Len(x.kids) |-> _to_value(x.kids[i])]

\* self._to_value(xml[0])
ToValueFirst(x) == IF x.kids = <<>> THEN Raise("IndexError") ELSE _to_value(x.kids[1])

\* cls(self._to_value(xml[0])) of a one-field namedtuple
Wrap1(k, x) ==
    LET v == ToValueFirst(x) IN IF IsExc(v) THEN v ELSE NamedTuple(k, <<v>>)

\* cls(*map(self._to_value, xml)) of a namedtuple
WrapAll(k, x) ==
    LET vs == MapToValue(x)
    IN  IF HasExc(vs) THEN FirstExc(vs)
        ELSE IF Len(vs) # Arity(k) THEN Raise("TypeError")
        ELSE NamedTuple(k, vs)

_to_value(x) ==
    IF ~IsElement(x) THEN Raise("AttributeError")     \* None has no attribute 'tag'
    ELSE LET tag == x.tag IN
    IF tag = "unit" THEN Unit
    ELSE IF tag = "bool" THEN
        (IF ValIs(x, sTrue) THEN PyBool(TRUE)
         ELSE IF ValIs(x, sFalse) THEN PyBool(FALSE)
         ELSE unexpected(<<sTrue, sFalse>>, GotVal(x)))
    ELSE IF tag = "int" THEN int(x.text, x.text # <<>>)
    ELSE IF tag \in {"string", "richpp"} THEN PyStr(itertext(x))
    ELSE IF tag = "list" THEN
        (LET vs == MapToValue(x) IN IF HasExc(vs) THEN FirstExc(vs) ELSE PyList(vs))
    ELSE IF tag = "pair" THEN
        (LET vs == MapToValue(x) IN IF HasExc(vs) THEN FirstExc(vs) ELSE PyTuple(vs))
    ELSE IF tag = "option" THEN
        (IF ValIs(x, sNone) THEN Option(None)
         ELSE IF ValIs(x, sSome) THEN Wrap1("Option", x)
         ELSE unexpected(<<sNone, sSome>>, GotVal(x)))
    ELSE IF tag = "union" THEN
        (IF ValIs(x, sInL) THEN Wrap1("Inl", x)
         ELSE IF ValIs(x, sInR) THEN Wrap1("Inr", x)
         ELSE unexpected(<<sInL, sInR>>, GotVal(x)))
    ELSE IF tag = "goal" THEN WrapAll("Goal", x)
    ELSE IF tag = "goals" THEN WrapAll("Goals", x)
    ELSE IF tag = "evar" THEN Wrap1("Evar", x)
    ELSE IF tag = "option_state" THEN WrapAll("OptionState", x)
    ELSE IF tag = "option_value" THEN Wrap1("OptionValue", x)
    ELSE IF tag = "state_id" THEN
        (LET n == int(IF HasAttr(x, "val") THEN Attr(x, "val") ELSE <<>>, HasAttr(x, "val"))
         IN  IF IsExc(n) THEN n ELSE StateId(n))
    ELSE IF tag = "status" THEN WrapAll("Status", x)
    ELSE IF tag = "coq_info" THEN WrapAll("CoqInfo", x)
    ELSE IF tag = "message" THEN _to_value(find(x, "richpp"))
    ELSE unexpected(<<>>, GotName(tag))

\* Coqtop Response Types (lines 25-59)
Ok(v, msg) == [cls |-> "Ok", val |-> v, msg |-> msg]
Err(msg, loc, timed_out) == [cls |-> "Err", msg |-> msg, loc |-> loc, timed_out |-> timed_out]

\* a mutant of LocAttr: an absent location defaults to 0
LocAttr_zero(x, name) == IF HasAttr(x, name) THEN int(Attr(x, name), TRUE) ELSE PyInt(0)

\* int(xml.get(name, -1))
LocAttr(x, name) == IF HasAttr(x, name) THEN int(Attr(x, name), TRUE) ELSE PyInt(-1)

_to_response(x) ==
    IF x.tag # "value" THEN Raise("AssertionError")
    ELSE IF ValIs(x, sGood) THEN
        (LET v == ToValueFirst(x) IN IF IsExc(v) THEN v ELSE Ok(v, <<>>))
    ELSE IF ValIs(x, sFail) THEN
        (LET loc_s == LocAttr(x, "loc_s")
             loc_e == LocAttr(x, "loc_e")
             msg == itertext(x)
         IN  IF IsExc(loc_s) THEN loc_s
             ELSE IF IsExc(loc_e) THEN loc_e
             ELSE Err(msg, <<loc_s.n, loc_e.n>>, FALSE))
    ELSE unexpected(<<sGood, sFail>>, GotVal(x))

(***************************************************************************)
(* Bytes of XML.  A byte string is a sequence of tokens: a start tag, an   *)
(* empty-element tag, an end tag, a run of character data, or the leading  *)
(* bytes of a tag or of an entity reference that the end of the string cut *)
(* off ("cut").  A character of character data or of an attribute value is *)
(* one character or one whole entity reference.                            *)
(***************************************************************************)
Open(tag, attrib) == [t |-> "open", tag |-> tag, attrib |-> attrib, text |-> <<>>]
Empty(tag, attrib) == [t |-> "empty", tag |-> tag, attrib |-> attrib, text |-> <<>>]
Close(tag) == [t |-> "close", tag |-> tag, attrib |-> <<>>, text |-> <<>>]
Text(chars) == [t |-> "text", tag |-> "", attrib |-> <<>>, text |-> chars]
Cut == [t |-> "cut", tag |-> "", attrib |-> <<>>, text |-> <<>>]

\* charmap of _unescape
UnescapeChar(c) ==
    CASE c = "&nbsp;" -> " "
      [] c = "&apos;" -> "'"
      [] c = "&#40;" -> "("
      [] c = "&#41;" -> ")"
      [] OTHER -> c

UnescapeChars(s) == [i \in 1..Len(s) |-> UnescapeChar(s[i])]

\* _unescape(cmd): every escape in the buffer is replaced, in character data
\* and in attribute values alike
_unescape(cmd) ==
    [i \in 1..Len(cmd) |->
        [cmd[i] EXCEPT
            !.text = UnescapeChars(@),
            !.attrib = [j \in 1..Len(@) |-> <<@[j][1], UnescapeChars(@[j][2])>>]]]

\* the entity and character references the XML parser resolves by itself,
\* and one it does not know
References == {"&amp;", "&lt;", "&gt;", "&quot;", "&apos;", "&#40;", "&#41;", "&nbsp;"}

IsReference(c) == c \in References

Undefined(c) == c = "&nbsp;"

Resolve(c) ==
    CASE c = "&amp;" -> "&"
      [] c = "&lt;" -> "<"
      [] c = "&gt;" -> ">"
      [] c = "&quot;" -> "\""
      [] c = "&apos;" -> "'"
      [] c = "&#40;" -> "("
      [] c = "&#41;" -> ")"
      [] OTHER -> c

ResolveChars(s) == [i \in 1..Len(s) |-> Resolve(s[i])]

\* the token refers to an entity the parser does not know
HasUndefined(tok) ==
    \/ \E i \in 1..Len(tok.text) : Undefined(tok.text[i])
    \/ \E j \in 1..Len(tok.attrib) :
          \E i \in 1..Len(tok.attrib[j][2]) : Undefined(tok.attrib[j][2][i])

\* the element a start tag or an empty-element tag opens
Started(tok) ==
    Element(tok.tag, [j \in 1..Len(tok.attrib) |->
                         <<tok.attrib[j][1], ResolveChars(tok.attrib[j][2])>>], <<>>)

\* the element on top of the parser's stack takes character data: its text
\* before its first child, the tail of its last child after
AddText(e, chars) ==
    IF e.kids = <<>> THEN [e EXCEPT !.text = @ \o chars]
    ELSE [e EXCEPT !.kids[Len(e.kids)].tail = @ \o chars]

AddKid(e, kid) == [e EXCEPT !.kids = Append(@, kid)]

ParseError == Raise("ParseError")

RECURSIVE ParseFrom(_, _, _, _)
\* the parser after the first i - 1 tokens: stack holds the open elements,
\* root the document element once it is closed
ParseFrom(toks, i, stack, root) ==
    IF i > Len(toks)
    THEN (IF stack = <<>> /\ IsElement(root) THEN root ELSE ParseError)
    ELSE LET tok == toks[i]
             n == Len(stack)
         IN  IF tok.t = "cut" THEN ParseError              \* unclosed token
             ELSE IF HasUndefined(tok) THEN ParseError     \* undefined entity
             ELSE IF IsElement(root) THEN ParseError       \* junk after document element
             ELSE IF tok.t = "open"
                  THEN ParseFrom(toks, i + 1, Append(stack, Started(tok)), root)
             ELSE IF tok.t = "text"
                  THEN (IF n = 0 THEN ParseError
                        ELSE ParseFrom(toks, i + 1,
                                       [stack EXCEPT ![n] = AddText(@, ResolveChars(tok.text))],
                                       root))
             ELSE IF tok.t = "empty"
                  THEN (IF n = 0 THEN ParseFrom(toks, i + 1, stack, Started(tok))
                        ELSE ParseFrom(toks, i + 1,
                                       [stack EXCEPT ![n] = AddKid(@, Started(tok))], root))
             ELSE \* an end tag
                  IF n = 0 \/ stack[n].tag # tok.tag THEN ParseError
                  ELSE IF n = 1 THEN ParseFrom(toks, i + 1, <<>>, stack[1])
                  ELSE ParseFrom(toks, i + 1,
                                 SubSeq(stack, 1, n - 2) \o <<AddKid(stack[n - 1], stack[n])>>,
                                 root)

\* ET.fromstring(text): the document element, or ParseError
fromstring(toks) == ParseFrom(toks, 1, <<>>, None)

\* _escape_cdata / _escape_attrib of ET.tostring
EscapeChar(c) ==
    CASE c = "&" -> "&amp;"
      [] c = "<" -> "&lt;"
      [] c = ">" -> "&gt;"
      [] OTHER -> c

EscapeChars(s) == [i \in 1..Len(s) |-> EscapeChar(s[i])]

RECURSIVE Serialize(_)
\* the bytes of an element: <tag /> when it has neither text nor children
Serialize(e) ==
    LET attrib == [j \in 1..Len(e.attrib) |-> <<e.attrib[j][1], EscapeChars(e.attrib[j][2])>>]
        chars(s) == IF s = <<>> THEN <<>> ELSE <<Text(EscapeChars(s))>>
    IN  (IF e.text = <<>> /\ e.kids = <<>>
         THEN <<Empty(e.tag, attrib)>>
         ELSE <<Open(e.tag, attrib)>> \o chars(e.text)
                 \o Concat([i \in 1..Len(e.kids) |-> Serialize(e.kids[i])])
                 \o <<Close(e.tag)>>)
        \o chars(e.tail)

\* ET.tostring(element, encoding) of the element a command built
tostring(e) == IF IsExc(e) THEN e ELSE Serialize(e)

(***************************************************************************)
(* Coqtop Commands (lines 277-318): the bytes each command returns.         *)
(***************************************************************************)
init == tostring(_build_xml("call", PyStr(<<"I", "n", "i", "t">>), Option(None)))

\* add with the two inner pairs handed over as a list: _build_xml converts each
\* element of a list separately, so the call gets two argument children
add_as_list(cmd, state) ==
    tostring(_build_xml("call", PyStr(<<"A", "d", "d">>),
                        PyList(<<Pair(cmd, PyInt(-1)), Pair(state, PyBool(TRUE))>>)))

add(cmd, state) ==
    tostring(_build_xml("call", PyStr(<<"A", "d", "d">>),
                        Pair(Pair(cmd, PyInt(-1)), Pair(state, PyBool(TRUE)))))

edit_at(state) ==
    tostring(_build_xml("call", PyStr(<<"E", "d", "i", "t", "_", "a", "t">>), state))

query(cmd, state) ==
    tostring(_build_xml("call", PyStr(<<"Q", "u", "e", "r", "y">>), Pair(cmd, state)))

goal == tostring(_build_xml("call", PyStr(<<"G", "o", "a", "l">>), Unit))

(***************************************************************************)
(* The codec's harness: a caller builds a value of the Value Model (or one *)
(* outside it), encodes it and decodes the element; the process sends an   *)
(* element, which is decoded; a caller issues a command.                   *)
(***************************************************************************)
sAB == <<"a", "b">>
sLemma == <<"L", "e", "m", "m", "a", " ", "f", "o", "o", ".">>

aGoal == NamedTuple("Goal", <<PyStr(<<"1">>), PyList(<<PyStr(sAB)>>), PyStr(<<"c">>)>>)

\* the values a caller starts from: the unwrapped members of the Value
\* Model, and two values outside it (a float, None)
Atoms ==
    {Unit, PyBool(TRUE), PyBool(FALSE), PyInt(-1), PyInt(12), PyStr(<<>>), PyStr(sAB),
     PyList(<<>>), Option(None), StateId(PyInt(3)), aGoal, Evar(PyStr(sAB)),
     PyFloat(1), None}

\* one more level of structure around v
Wrappers(v) ==
    {Option(v), Inl(v), Inr(v),
     PyList(<<v>>), PyList(<<v, PyInt(12)>>), PyList(<<PyBool(TRUE), v>>),
     Pair(v, PyStr(sAB)), Pair(Unit, v),
     PyTuple(<<v>>), PyTuple(<<v, PyInt(12), PyBool(FALSE)>>)}

\* the tags of the protocol (spec section 6) and two outside it
ProtocolTags ==
    {"unit", "bool", "int", "string", "richpp", "list", "pair", "option", "union",
     "goal", "goals", "evar", "option_state", "option_value", "state_id", "status",
     "coq_info", "message", "call", "value", "feedback"}

\* the tags _to_value has a branch for
DecodedTags == ProtocolTags \ {"call", "value", "feedback"}

WireTags == ProtocolTags \cup {"xref", "ltacprof"}

WireAttribs ==
    {<<>>, << <<"val", sTrue>> >>, << <<"val", sSome>> >>, << <<"val", sInR>> >>,
     << <<"val", <<"7">>>> >>}

TextElem(tag, text) == [Element(tag, <<>>, <<>>) EXCEPT !.text = text]

WireKids ==
    LET s == TextElem("string", sAB)
        r == TextElem("richpp", <<"c">>)
        n == TextElem("int", <<"4">>)
        l == Element("list", <<>>, <<s>>)
    IN  {<<>>, <<s>>, <<n, r>>, <<s, l, r>>, <<s, s, s, s>>, <<l, Element("option", << <<"val", sNone>> >>, <<>>), l, n>>}

WireNodes ==
    {[Element(tag, a, kids) EXCEPT !.text = t] :
        tag \in WireTags, a \in WireAttribs, kids \in WireKids, t \in {<<>>, <<"5">>}}

CommandStrings == {<<>>, sAB, sLemma, <<"a", "<", "b", "&", "c">>}
StateIds == {StateId(PyInt(n)) : n \in {0, 3, 12}}

NoElement == None
NoValue == None
NoResult == None

CodecIdle ==
    /\ data = <<>> /\ first = <<>> /\ single = NoResult /\ r1 = NoResult /\ r2 = NoResult
    /\ parts = <<>> /\ version = <<>> /\ versions = <<>> /\ impl = NoResult

InitCodec ==
    /\ CodecIdle
    /\ out = NoValue
    /\ sent = <<>>
    /\ \/ pc = "value" /\ val \in Atoms /\ depth = 0 /\ xml = NoElement
       \/ pc = "wire" /\ val = NoValue /\ depth = 0 /\ xml \in WireNodes
       \/ pc = "command" /\ val = NoValue /\ depth = 0 /\ xml = NoElement

\* the caller nests the value one level deeper
WrapValue ==
    /\ pc = "value"
    /\ depth < MaxDepth
    /\ \E w \in Wrappers(val) : val' = w
    /\ depth' = depth + 1
    /\ UNCHANGED <<pc, xml, out, sent, framerVars, versionVars>>

\* xml = self._from_value(val)
FromValue ==
    /\ pc = "value"
    /\ xml' = _from_value(val)
    /\ pc' = "encoded"
    /\ UNCHANGED <<val, depth, out, sent, framerVars, versionVars>>

\* out = self._to_value(xml), of an element _from_value built or the process sent
ToValue ==
    /\ pc \in {"encoded", "wire"}
    /\ IsElement(xml)
    /\ out' = _to_value(xml)
    /\ pc' = IF pc = "wire" THEN "wire_decoded" ELSE "decoded"
    /\ UNCHANGED <<val, depth, xml, sent, framerVars, versionVars>>

CallInit ==
    /\ pc = "command"
    /\ val' = PyTuple(<<PyStr(<<"I", "n", "i", "t">>)>>)
    /\ sent' = init
    /\ pc' = "called"
    /\ UNCHANGED <<depth, xml, out, framerVars, versionVars>>

CallAdd ==
    /\ pc = "command"
    /\ \E cmd \in CommandStrings, state \in StateIds :
          /\ val' = PyTuple(<<PyStr(<<"A", "d", "d">>), PyStr(cmd), state>>)
          /\ sent' = add(PyStr(cmd), state)
    /\ pc' = "called"
    /\ UNCHANGED <<depth, xml, out, framerVars, versionVars>>

CallEditAt ==
    /\ pc = "command"
    /\ \E state \in StateIds :
          /\ val' = PyTuple(<<PyStr(<<"E", "d", "i", "t", "_", "a", "t">>), state>>)
          /\ sent' = edit_at(state)
    /\ pc' = "called"
    /\ UNCHANGED <<depth, xml, out, framerVars, versionVars>>

CallQuery ==
    /\ pc = "command"
    /\ \E cmd \in CommandStrings, state \in StateIds :
          /\ val' = PyTuple(<<PyStr(<<"Q", "u", "e", "r", "y">>), PyStr(cmd), state>>)
          /\ sent' = query(PyStr(cmd), state)
    /\ pc' = "called"
    /\ UNCHANGED <<depth, xml, out, framerVars, versionVars>>

CallGoal ==
    /\ pc = "command"
    /\ val' = PyTuple(<<PyStr(<<"G", "o", "a", "l">>)>>)
    /\ sent' = goal
    /\ pc' = "called"
    /\ UNCHANGED <<depth, xml, out, framerVars, versionVars>>

NextCodec ==
    \/ WrapValue
    \/ FromValue
    \/ ToValue
    \/ CallInit
    \/ CallAdd
    \/ CallEditAt
    \/ CallQuery
    \/ CallGoal

SpecCodec == InitCodec /\ [][NextCodec]_vars

(***************************************************************************)
(* Claims about the codec and the command builders (SpecCodec).            *)
(***************************************************************************)
RECURSIVE InEncodeList(_)
\* v is built only from the shapes _from_value has a case for: unit, bool,
\* int, str, list, two-element pair, Option, Inl/Inr, StateId
InEncodeList(v) ==
    \/ v = Unit
    \/ v.k \in {"bool", "int", "str"}
    \/ v.k = "list" /\ \A i \in 1..Len(v.items) : InEncodeList(v.items[i])
    \/ v.k = "tuple" /\ Len(v.items) = 2 /\ \A i \in 1..2 : InEncodeList(v.items[i])
    \/ v = Option(None)
    \/ v.k \in {"Option", "Inl", "Inr"} /\ InEncodeList(v.items[1])
    \/ v.k = "StateId" /\ v.items[1].k = "int"

\* the top-level shape of v is one of the encode list
TopInEncodeList(v) ==
    \/ v.k \in {"bool", "int", "str", "list", "Option", "Inl", "Inr", "StateId"}
    \/ v.k = "tuple" /\ Len(v.items) \in {0, 2}

\* C1: Round-trip.  For every value v built from the shapes the encoder has
\* a case for (unit, booleans, integers, strings, lists, pairs, Option
\* none/some, Either left/right, StateId, nested, including Option/Either
\* wrapping a list), encoding v succeeds and decoding the element returns a
\* value equal to v: _to_value(_from_value(v)) = v.
C1_RoundTrip ==
    (pc \in {"encoded", "decoded"} /\ InEncodeList(val))
        => /\ IsElement(xml)
           /\ pc = "decoded" => out = val

\* C9: Option(some x), Inl(x) and Inr(x) encode to a node (option/some,
\* union/in_l, union/in_r) with exactly one child, which is encode(x), for
\* every encodable x, a list included; Option(none) encodes to option/none
\* with no children.
C9_OneChild ==
    (pc = "encoded" /\ val.k \in {"Option", "Inl", "Inr"})
        => IF val = Option(None)
           THEN xml = Element("option", << <<"val", sNone>> >>, <<>>)
           ELSE IsElement(_from_value(val.items[1]))
                   => /\ IsElement(xml)
                      /\ xml.tag = (IF val.k = "Option" THEN "option" ELSE "union")
                      /\ xml.attrib = << <<"val", CASE val.k = "Option" -> sSome
                                                    [] val.k = "Inl" -> sInL
                                                    [] val.k = "Inr" -> sInR>> >>
                      /\ Len(xml.kids) = 1
                      /\ xml.kids[1] = _from_value(val.items[1])

\* C10: Fail-fast.  Encoding a value whose shape is outside the encode
\* list (a plain tuple whose length is not 2, a record, a float, None) ends
\* in the 'unexpected' error naming the offending type, and decoding a
\* node whose tag is outside the protocol vocabulary ends in the
\* 'unexpected' error naming the tag; neither yields a tree or a value.
C10_FailFast ==
    /\ (pc = "encoded" /\ ~TopInEncodeList(val))
          => xml = unexpected(<<>>, GotName(val.k))
    /\ (pc = "wire_decoded" /\ xml.tag \notin ProtocolTags)
          => out = unexpected(<<>>, GotName(xml.tag))

\* the name and the arguments the harness recorded for the command issued
CalledName == val.items[1].s
CalledArg(i) == val.items[i + 1]

\* the element the process reads from the bytes of the command
SentNode == fromstring(sent)

\* C7: Command construction.  Every command yields a node tagged call whose
\* val is the call's name and which has exactly one argument child; the
\* child decodes to ((c, -1), (s, true)) for add(c, s), to Option(none) for
\* init, to the state id for edit_at, to (query-string, state-id) for query
\* and to unit for goal.
C7_CommandConstruction ==
    pc = "called"
        => /\ IsElement(SentNode)
           /\ SentNode.tag = "call"
           /\ SentNode.attrib = << <<"val", CalledName>> >>
           /\ Len(SentNode.kids) = 1
           /\ _to_value(SentNode.kids[1]) =
                 CASE CalledName = <<"A", "d", "d">> ->
                          Pair(Pair(CalledArg(1), PyInt(-1)), Pair(CalledArg(2), PyBool(TRUE)))
                   [] CalledName = <<"I", "n", "i", "t">> -> Option(None)
                   [] CalledName = <<"E", "d", "i", "t", "_", "a", "t">> -> CalledArg(1)
                   [] CalledName = <<"Q", "u", "e", "r", "y">> -> Pair(CalledArg(1), CalledArg(2))
                   [] CalledName = <<"G", "o", "a", "l">> -> Unit

\* the spec's example: add("Lemma foo.", stateId = 3) has been built
C7_Witness ==
    /\ pc = "called"
    /\ CalledName = <<"A", "d", "d">>
    /\ CalledArg(1) = PyStr(sLemma)
    /\ CalledArg(2) = StateId(PyInt(3))
    /\ SentNode.kids[1].tag = "pair"

(***************************************************************************)
(* XmlInterface86.raw_response.                                            *)
(***************************************************************************)
\* a mutant of OnParseError: the ParseError is not caught
OnParseError_raise == ParseError

\* lines 329-331: except ET.ParseError: return None
OnParseError == None

\* a mutant of InitialVal: val starts as an empty Ok
InitialVal_ok == Ok(None, <<>>)

\* line 322: val = None
InitialVal == None

RECURSIVE Scan(_, _, _, _)
\* lines 334-341: the loop over the top-level responses from the i-th on,
\* with the locals val and msgs; an exception ends it
Scan(responses, i, v, msgs) ==
    IF i > Len(responses) THEN [val |-> v, msgs |-> msgs]
    ELSE LET response == responses[i]
             v1 == IF response.tag = "value" THEN _to_response(response) ELSE v
             m == IF response.tag = "message" THEN _to_value(response) ELSE None
         IN  IF IsExc(v1) THEN v1
             ELSE IF IsExc(m) THEN m
             ELSE Scan(responses, i + 1, v1,
                       IF response.tag = "message" THEN Append(msgs, m.s) ELSE msgs)

\* a mutant of AppendMsgs: the messages are joined by one newline
AppendMsgs_one_newline(v, msgs) ==
    IF v # None THEN [v EXCEPT !.msg = @ \o Join(<<"\n">>, msgs)] ELSE v

\* lines 343-346: if val is not None: val.msg += '\n\n'.join(msgs); return val
AppendMsgs(v, msgs) ==
    IF v # None THEN [v EXCEPT !.msg = @ \o Join(<<"\n", "\n">>, msgs)] ELSE v

raw_response(buf) ==
    LET responses == fromstring(<<Open("coqtoproot", <<>>)>> \o _unescape(buf)
                                    \o <<Close("coqtoproot")>>)
    IN  IF IsExc(responses) THEN OnParseError
        ELSE LET s == Scan(responses.kids, 1, InitialVal, <<>>)
             IN  IF IsExc(s) THEN s ELSE AppendMsgs(s.val, s.msgs)

(***************************************************************************)
(* The framer's harness: the process has emitted a buffer of top-level     *)
(* elements; the caller parses it in one call, or feeds a first chunk of   *)
(* it and then the whole of it.  Separately, _to_response is applied to a  *)
(* value node.                                                             *)
(***************************************************************************)
Val(s) == << <<"val", s>> >>

\* <message><richpp>a</richpp></message>
msgA ==
    <<Open("message", <<>>), Open("richpp", <<>>), Text(<<"a">>), Close("richpp"),
      Close("message")>>

\* <message><message_level val="info"/><richpp><_>b&nbsp;<i>c</i></_>d</richpp></message>
msgB ==
    <<Open("message", <<>>), Empty("message_level", Val(<<"i", "n", "f", "o">>)),
      Open("richpp", <<>>), Open("_", <<>>), Text(<<"b", "&nbsp;">>), Open("i", <<>>),
      Text(<<"c">>), Close("i"), Close("_"), Text(<<"d">>), Close("richpp"),
      Close("message")>>

\* <message><message_level val="info"/></message>: no richpp child
msgBad ==
    <<Open("message", <<>>), Empty("message_level", Val(<<"i", "n", "f", "o">>)),
      Close("message")>>

\* <value val="good"><state_id val="12"/></value>
valGood ==
    <<Open("value", Val(sGood)), Empty("state_id", Val(<<"1", "2">>)), Close("value")>>

\* <value val="fail" loc_s="1" loc_e="5">err<state_id val="0"/></value>
valFail ==
    <<Open("value", << <<"val", sFail>>, <<"loc_s", <<"1">>>>, <<"loc_e", <<"5">>>> >>),
      Text(<<"e", "r", "r">>), Empty("state_id", Val(<<"0">>)), Close("value")>>

\* <feedback object="state"/>
feedback == <<Empty("feedback", << <<"object", <<"s", "t", "a", "t", "e">>>> >>)>>

\* a newline between two elements
newline == <<Text(<<"\n">>)>>

ElementLib == {msgA, msgB, msgBad, valGood, valFail, feedback, newline}

\* what the process can have emitted: up to MaxElems top-level items
Buffers ==
    {Concat(es) : es \in UNION {[1..n -> ElementLib] : n \in 0..MaxElems}}

\* the first chunks of buf: a chunk ends between two tokens, inside a tag,
\* between two characters of character data, or inside an escape
Chunks(buf) ==
    LET Before(p) == SubSeq(buf, 1, p)
        TextCuts(p) ==
            LET s == buf[p + 1].text
            IN  {Before(p) \o <<Text(SubSeq(s, 1, k))>> : k \in 1..(Len(s) - 1)}
                \cup {Before(p) \o (IF k = 1 THEN <<>> ELSE <<Text(SubSeq(s, 1, k - 1))>>) \o <<Cut>> :
                         k \in {j \in 1..Len(s) : IsReference(s[j])}}
    IN  {Before(p) : p \in 0..Len(buf)}
        \cup UNION {IF buf[p + 1].t = "text" THEN TextCuts(p) ELSE {Before(p) \o <<Cut>>} :
                       p \in 0..(Len(buf) - 1)}

\* value nodes as the parser hands them to _to_response
ValueNodes ==
    LET st == [Element("state_id", Val(<<"7">>), <<>>) EXCEPT !.tail = <<"o", "r">>]
        rp == TextElem("richpp", sAB)
        kidss == {<<>>, <<Element("unit", <<>>, <<>>)>>, <<st>>, <<rp, st>>,
                  <<Element("xref", <<>>, <<>>)>>}
        vals == {<<>>, Val(sGood), Val(sFail), Val(sTrue)}
        locs == {<<>>, << <<"loc_s", <<"1">>>> >>, << <<"loc_e", <<"1", "2">>>> >>,
                 << <<"loc_s", <<"3">>>>, <<"loc_e", <<"1", "2">>>> >>}
    IN  {[Element("value", v \o l, kids) EXCEPT !.text = txt] :
            v \in vals, l \in locs, kids \in kidss, txt \in {<<>>, <<"E", "r">>}}

FramerIdle ==
    /\ val = NoValue /\ depth = 0 /\ sent = <<>>
    /\ parts = <<>> /\ version = <<>> /\ versions = <<>> /\ impl = NoResult

InitFramer ==
    /\ FramerIdle
    /\ first = <<>> /\ single = NoResult /\ r1 = NoResult /\ r2 = NoResult
    /\ out = NoValue
    /\ \/ pc = "start" /\ data \in Buffers /\ xml = NoElement
       \/ pc = "node" /\ data = <<>> /\ xml \in ValueNodes

\* the caller hands the whole buffer to raw_response
Single ==
    /\ pc = "start"
    /\ single' = raw_response(data)
    /\ pc' = "single"
    /\ UNCHANGED <<data, first, r1, r2, codecVars, versionVars>>

\* the caller hands a first chunk of the buffer to raw_response
FeedFirst ==
    /\ pc = "single"
    /\ \E c \in Chunks(data) :
          /\ first' = c
          /\ r1' = raw_response(c)
    /\ pc' = "first"
    /\ UNCHANGED <<data, single, r2, codecVars, versionVars>>

\* the rest has arrived: the caller hands the whole buffer to raw_response
FeedAll ==
    /\ pc = "first"
    /\ r2' = raw_response(data)
    /\ pc' = "done"
    /\ UNCHANGED <<data, first, single, r1, codecVars, versionVars>>

\* out = self._to_response(xml)
ToResponse ==
    /\ pc = "node"
    /\ out' = _to_response(xml)
    /\ pc' = "responded"
    /\ UNCHANGED <<val, depth, xml, sent, framerVars, versionVars>>

NextFramer ==
    \/ Single
    \/ FeedFirst
    \/ FeedAll
    \/ ToResponse

SpecFramer == InitFramer /\ [][NextFramer]_vars

(***************************************************************************)
(* Claims about the framer and _to_response (SpecFramer).                  *)
(***************************************************************************)
IsResult(r) == "cls" \in DOMAIN r

\* the number of elements still open after the tokens of a chunk
RECURSIVE OpenDepth(_)
OpenDepth(toks) ==
    IF toks = <<>> THEN 0
    ELSE LET last == toks[Len(toks)]
         IN  OpenDepth(SubSeq(toks, 1, Len(toks) - 1))
                + (CASE last.t = "open" -> 1 [] last.t = "close" -> -1 [] OTHER -> 0)

\* the chunk ends outside every element and outside every tag and escape
EndsBetweenElements(toks) ==
    /\ OpenDepth(toks) = 0
    /\ \A i \in 1..Len(toks) : toks[i].t # "cut"

\* the positions of the chunk's top-level start tags with the given tag
TopLevelAt(toks, tag) ==
    {i \in 1..Len(toks) :
        /\ toks[i].t \in {"open", "empty"}
        /\ toks[i].tag = tag
        /\ OpenDepth(SubSeq(toks, 1, i - 1)) = 0}

\* the chunk holds a complete top-level value element
HoldsCompleteValue(toks) == EndsBetweenElements(toks) /\ TopLevelAt(toks, "value") # {}

\* C2 as stated: when raw_response completes on the buffer, then for every
\* split of the buffer into a first chunk and a non-empty remainder,
\* raw_response on the first chunk alone returns None.
C2_FirstChunkIncomplete ==
    (pc = "first" /\ IsResult(single) /\ first # data) => r1 = None

\* C2 as amended: when raw_response completes on the buffer, raw_response on
\* a first chunk returns None exactly when the chunk holds no complete
\* top-level value element, and a completed Result otherwise; raw_response
\* on the whole buffer, called afterwards, returns what a single call did.
C2_Framing ==
    (pc \in {"first", "done"} /\ IsResult(single))
        => /\ r1 = None <=> ~HoldsCompleteValue(first)
           /\ r1 # None => IsResult(r1)
           /\ pc = "done" => r2 = single

\* a buffer was split inside its value element, and then fed whole
C2_Witness ==
    /\ pc = "done"
    /\ IsResult(single)
    /\ r1 = None
    /\ TopLevelAt(first, "value") # {}
    /\ first # data

\* the top-level elements of a buffer that parses
Responses(buf) ==
    fromstring(<<Open("coqtoproot", <<>>)>> \o _unescape(buf) \o <<Close("coqtoproot")>>).kids

Tagged(elems, tag) == SelectSeq(elems, LAMBDA e : e.tag = tag)

BlankLine == <<"\n", "\n">>

\* C3: Message accumulation.  When the buffer holds top-level message
\* elements and a value element, all of which decode, raw_response returns
\* the Result decoded from the (last) value element with the message texts,
\* in document order and joined by a blank line, appended to its message;
\* two messages followed by a value with val="good" give a Success whose
\* message is exactly the two texts joined by a blank line.
C3_MessageAccumulation ==
    pc = "single" =>
        LET values == Tagged(Responses(data), "value")
            msgs == Tagged(Responses(data), "message")
            base == _to_response(values[Len(values)])
            texts == [i \in 1..Len(msgs) |-> itertext(find(msgs[i], "richpp"))]
        IN  /\ (/\ values # <<>>
                /\ \A i \in 1..Len(msgs) : find(msgs[i], "richpp") # None)
                  => /\ IsResult(single)
                     /\ single.cls = base.cls
                     /\ single.msg = base.msg \o Join(BlankLine, texts)
                     /\ single.cls = "Ok" => single.val = base.val
                     /\ single.cls = "Err" => single.loc = base.loc
            /\ data = msgA \o msgB \o valGood
                  => single = Ok(StateId(PyInt(12)),
                                 <<"a", "\n", "\n", "b", " ", "c", "d">>)

\* two message elements followed by a value with val="good" were parsed
C3_Witness ==
    /\ pc = "single"
    /\ data = msgA \o msgB \o valGood
    /\ single.cls = "Ok"

\* C4 as stated: a buffer that parses and has no top-level value element
\* gives None, whatever message or feedback children it holds, malformed
\* message children included.
C4_NoValueIsNone ==
    (pc = "single" /\ Tagged(Responses(data), "value") = <<>>) => single = None

\* C4 as amended: a buffer that parses and has no top-level value element
\* gives None when each of its top-level message elements has a richpp
\* child, whatever feedback children it holds; a top-level message without
\* a richpp child makes raw_response raise the decode error.
C4_NoValue ==
    (pc = "single" /\ Tagged(Responses(data), "value") = <<>>)
        => LET msgs == Tagged(Responses(data), "message")
           IN  IF \A i \in 1..Len(msgs) : find(msgs[i], "richpp") # None
               THEN single = None
               ELSE single = Raise("AttributeError")

\* a message and a feedback element have arrived, the value has not
C4_Witness ==
    /\ pc = "single"
    /\ data = msgA \o feedback
    /\ single = None

\* C8: Response decoding.  On a value node with val="fail" _to_response
\* returns a Failure whose message is the node's concatenated text, whose
\* source range is (loc_s, loc_e) with an absent attribute read as -1, and
\* whose timeout flag is false; with val="good" it returns
\* Success(decode(first child), ""); with any other val it raises an error.
C8_ResponseDecoding ==
    pc = "responded" =>
        LET Loc(name) == IF HasAttr(xml, name) THEN StrToInt(Attr(xml, name)) ELSE -1
        IN  /\ ValIs(xml, sFail)
                  => /\ IsResult(out)
                     /\ out.cls = "Err"
                     /\ out.msg = itertext(xml)
                     /\ out.loc = <<Loc("loc_s"), Loc("loc_e")>>
                     /\ out.timed_out = FALSE
            /\ (ValIs(xml, sGood) /\ xml.kids # <<>>)
                  => LET v == _to_value(xml.kids[1])
                     IN  IF IsExc(v) THEN out = v
                         ELSE out = [cls |-> "Ok", val |-> v, msg |-> <<>>]
            /\ (~ValIs(xml, sGood) /\ ~ValIs(xml, sFail))
                  => IsExc(out) /\ out.exc = "ValueError"

\* a value node with val="fail" and no location attributes was decoded
C8_Witness ==
    /\ pc = "responded"
    /\ ValIs(xml, sFail)
    /\ ~HasAttr(xml, "loc_s") /\ ~HasAttr(xml, "loc_e")
    /\ out.loc = <<-1, -1>>
    /\ out.msg # <<>>

(***************************************************************************)
(* The version dispatcher, XmlInterface(version).                          *)
(***************************************************************************)
RECURSIVE ReplacePl(_)
\* version.replace('pl', '.')
ReplacePl(s) ==
    IF s = <<>> THEN <<>>
    ELSE IF Len(s) >= 2 /\ s[1] = "p" /\ s[2] = "l"
         THEN <<".">> \o ReplacePl(SubSeq(s, 3, Len(s)))
         ELSE <<s[1]>> \o ReplacePl(Tail(s))

RECURSIVE SplitDot(_)
\* s.split('.'): one more component than there are dots
SplitDot(s) ==
    IF \A i \in 1..Len(s) : s[i] # "."
    THEN <<s>>
    ELSE LET d == CHOOSE i \in 1..Len(s) : s[i] = "." /\ \A j \in 1..(i - 1) : s[j] # "."
         IN  <<SubSeq(s, 1, d - 1)>> \o SplitDot(SubSeq(s, d + 1, Len(s)))

\* a mutant of LeadingDigits: every digit of the component is kept
LeadingDigits_all(v) == SelectSeq(v, IsDigit)

\* re.match('[0-9]+', v): the leading run of digits; empty when there is no match
LeadingDigits(v) ==
    LET n == CHOOSE k \in 0..Len(v) :
                 /\ \A i \in 1..k : IsDigit(v[i])
                 /\ k < Len(v) => ~IsDigit(v[k + 1])
    IN  SubSeq(v, 1, n)

\* versions += (0,) * (3 - len(versions))
Pad(vs) == vs \o [i \in 1..(3 - Len(vs)) |-> 0]

RECURSIVE TupleLess(_, _)
\* a < b of two tuples of ints
TupleLess(a, b) ==
    IF b = <<>> THEN FALSE
    ELSE IF a = <<>> THEN TRUE
    ELSE IF a[1] # b[1] THEN a[1] < b[1]
    ELSE TupleLess(Tail(a), Tail(b))

TupleLessEq(a, b) == a = b \/ TupleLess(a, b)

XmlInterface86 == [cls |-> "XmlInterface86"]

\* raise ValueError("Invalid version: {}".format(version))
InvalidVersion(v) ==
    [exc |-> "ValueError", expected |-> <<>>,
     got |-> [name |-> "Invalid version", chars |-> v]]

\* line 351: version.replace('pl', '.').split('.')
Components(v) == SplitDot(ReplacePl(v))

\* line 354: re.match returns None for some component, and .group raises
NoMatch(v) == \E i \in 1..Len(Components(v)) : LeadingDigits(Components(v)[i]) = <<>>

\* lines 354-355: the local `versions` when every component matches
Normalize(v) ==
    Pad([i \in 1..Len(Components(v)) |-> DigitsToNat(LeadingDigits(Components(v)[i]))])

XmlInterface(v) ==
    IF NoMatch(v) THEN Raise("AttributeError")
    ELSE IF TupleLessEq(<<8, 6, 0>>, Normalize(v)) /\ TupleLess(Normalize(v), <<8, 7, 0>>)
    THEN XmlInterface86
    ELSE InvalidVersion(v)

\* the components version strings are written from
Pieces ==
    {<<"8">>, <<"6">>, <<"7">>, <<"0">>, <<"1">>, <<"9">>, <<"1", "0">>,
     <<"6", "+", "b", "e", "t", "a", "1">>, <<"d", "e", "v">>}

\* components joined by '.', the last one by '.' or by 'pl'
Written(ps, lastSep) ==
    IF Len(ps) = 1 THEN ps[1]
    ELSE Join(<<".">>, SubSeq(ps, 1, Len(ps) - 1)) \o lastSep \o ps[Len(ps)]

InitVersion ==
    /\ pc = "version"
    /\ val = NoValue /\ depth = 0 /\ xml = NoElement /\ out = NoValue /\ sent = <<>>
    /\ data = <<>> /\ first = <<>> /\ single = NoResult /\ r1 = NoResult /\ r2 = NoResult
    /\ parts \in UNION {[1..n -> Pieces] : n \in 1..MaxParts}
    /\ version \in {Written(parts, <<".">>), Written(parts, <<"p", "l">>)}
    /\ versions = <<>>
    /\ impl = NoResult

\* impl = XmlInterface(version)
Dispatch ==
    /\ pc = "version"
    /\ versions' = (IF NoMatch(version) THEN <<>> ELSE Normalize(version))
    /\ impl' = XmlInterface(version)
    /\ pc' = "dispatched"
    /\ UNCHANGED <<parts, version, codecVars, framerVars>>

NextVersion == Dispatch

SpecVersion == InitVersion /\ [][NextVersion]_vars

(***************************************************************************)
(* Claims about the version dispatcher (SpecVersion).                      *)
(***************************************************************************)
\* the number a component stands for: its leading run of digits
PieceNumber(piece) ==
    CASE piece = <<"8">> -> 8
      [] piece = <<"6">> -> 6
      [] piece = <<"7">> -> 7
      [] piece = <<"0">> -> 0
      [] piece = <<"1">> -> 1
      [] piece = <<"9">> -> 9
      [] piece = <<"1", "0">> -> 10
      [] piece = <<"6", "+", "b", "e", "t", "a", "1">> -> 6
      [] OTHER -> -1

StartsWithDigits(ps) == \A i \in 1..Len(ps) : PieceNumber(ps[i]) >= 0

\* the components as numbers, (major, minor, patch) filled up with 0
Triple(ps) == [i \in 1..3 |-> IF i <= Len(ps) THEN PieceNumber(ps[i]) ELSE 0]

\* C5: Version dispatch.  For every version string, XmlInterface returns
\* the 8.6 implementation exactly when the normalized triple t satisfies
\* (8,6,0) <= t < (8,7,0), that is when major = 8 and minor = 6, and in every
\* other case fails with the error that names the supplied version string.
C5_VersionDispatch ==
    pc = "dispatched" =>
        IF StartsWithDigits(parts) /\ Triple(parts)[1] = 8 /\ Triple(parts)[2] = 6
        THEN impl = XmlInterface86
        ELSE impl = InvalidVersion(version)

Init == InitCodec \/ InitFramer \/ InitVersion

Next == NextCodec \/ NextFramer \/ NextVersion

Spec == Init /\ [][Next]_vars

====
